---- MODULE Spec2Model ----
(***************************************************************************)
(* The send-email-notification edge function of tidy-prioritize: request   *)
(* authentication and validation, the two-window rate limiter over the     *)
(* email_logs table, content resolution, delivery through the provider and *)
(* the audit insert.  Each action is one stretch of the handler between    *)
(* two awaits that touch shared state (the email_logs table, the clock).   *)
(***************************************************************************)
EXTENDS Integers, Sequences, FiniteSets, TLC

(* ---------------------------------------------------------------- bounds *)
\* rateLimitConfig (10 per hour, 50 per day in the source), scaled down.
maxEmailsPerHour == 2
maxEmailsPerDay == 3
\* 60 * 60 * 1000 ms and 24 * 60 * 60 * 1000 ms, in clock ticks.
Hour == 2
Day == 3
\* The clock stops at MaxTime; requests are received while the table and the
\* invocations in flight hold fewer than MaxRows rows between them.
MaxTime == 4
MaxRows == 4
\* The same two bounds where every request shape is sent (Spec).
WideMaxTime == 1
WideMaxRows == 2
\* The same bound where every data bag is rendered (SpecRender).
RenderMaxRows == 1
\* The same two bounds where two invocations overlap (SpecRace).
RaceMaxTime == 3
RaceMaxRows == 4

Procs == {"p1", "p2"}
Users == {"u1", "u2"}

(* ------------------------------------------------------------- requests *)
\* A missing field, null and "" are all falsy to the handler: "" stands for
\* the three of them.
Absent == ""
EmptyBag == [html |-> Absent, text |-> Absent]

MkReq(to, subject, template, html, text, data) ==
    [to |-> to, subject |-> subject, template |-> template,
     html |-> html, text |-> text, data |-> data]

\* EmailRequest bodies: one of each shape the handler tells apart.
Requests ==
    { MkReq("a@x.io", "Hi", "welcome", Absent, Absent, EmptyBag),
      MkReq("a@x.io", "Hi", Absent, "<p>x</p>", Absent, EmptyBag),
      MkReq("a@x.io", "Hi", Absent, Absent, Absent, EmptyBag),
      MkReq("a@x.io", "Hi", "bogus", "<p>x</p>", Absent, EmptyBag),
      MkReq("a@x.io", "Hi", "constructor", Absent, Absent,
            [html |-> "<b>y</b>", text |-> Absent]),
      MkReq("bad", "Hi", Absent, Absent, "x", EmptyBag),
      MkReq(Absent, "Hi", "welcome", Absent, Absent, EmptyBag),
      MkReq("a@x.io", Absent, Absent, "<p>x</p>", Absent, EmptyBag) }

\* The well-formed template requests among them.
CoreRequests ==
    {r \in Requests : r.to = "a@x.io" /\ r.subject = "Hi" /\ r.template = "welcome"}

\* The authorization header: none, a credential of no user, or a user's.
NoHeader == "none"
Stale == "stale"
AuthVals == {NoHeader, Stale} \cup Users

NoUser == "nobody"

\* getUser resolving a credential of no user to a user.
getUser_acceptsStale(auth) ==
    IF auth \in Users THEN auth ELSE IF auth = Stale THEN "u1" ELSE NoUser

\* supabase.auth.getUser(): the user of the credential, or none.
getUser(auth) == IF auth \in Users THEN auth ELSE NoUser

\* /^[^\s@]+@[^\s@]+\.[^\s@]+$/.test(email)
Char(str, i) == SubSeq(str, i, i)
isValidEmail(email) ==
    \E i \in 1..Len(email), j \in 1..Len(email) :
        /\ Char(email, i) = "@"
        /\ Char(email, j) = "."
        /\ 1 < i /\ i + 1 < j /\ j < Len(email)
        /\ \A k \in (1..Len(email)) \ {i} : Char(email, k) \notin {"@", " ", "\t", "\n"}

(* ------------------------------------------------------------ templates *)
RegisteredTemplates ==
    {"task-reminder", "task-assigned", "task-completed", "welcome",
     "password-reset"}

\* A data bag is a function from the field names it has to their values.
\* const { f } = data: undefined when the bag has no field f.
Has(data, f) == f \in DOMAIN data
\* ${f} in a template literal: the value, or the text "undefined".
Interp(data, f) == IF Has(data, f) THEN data[f] ELSE "undefined"
\* f ? ... : '' : undefined and '' are falsy.
Truthy(data, f) == Has(data, f) /\ data[f] # ""
\* ${f || 'default'}
OrElse(data, f, default) == IF Truthy(data, f) THEN data[f] ELSE default

\* The five template functions, their literals line by line (the check mark
\* before "Task Completed" is not a character a module string can hold).
taskReminderTemplate(data) ==
    [html |->
        "\n" \o
        "<!DOCTYPE html>\n" \o
        "<html>\n" \o
        "<head>\n" \o
        "  <style>\n" \o
        "    body { font-family: Arial, sans-serif; line-height: 1.6; color: #333; }\n" \o
        "    .container { max-width: 600px; margin: 0 auto; padding: 20px; }\n" \o
        "    .header { background-color: #4F46E5; color: white; padding: 20px; text-align: center; }\n" \o
        "    .content { background-color: #f9fafb; padding: 20px; margin-top: 20px; border-radius: 8px; }\n" \o
        "    .task-name { font-size: 20px; font-weight: bold; margin-bottom: 10px; }\n" \o
        "    .due-date { color: #dc2626; font-weight: bold; }\n" \o
        "    .button { display: inline-block; background-color: #4F46E5; color: white; padding: 12px 24px; text-decoration: none; border-radius: 6px; margin-top: 20px; }\n" \o
        "    .footer { margin-top: 30px; text-align: center; color: #6b7280; font-size: 12px; }\n" \o
        "  </style>\n" \o
        "</head>\n" \o
        "<body>\n" \o
        "  <div class=\"container\">\n" \o
        "    <div class=\"header\">\n" \o
        "      <h1>Task Reminder</h1>\n" \o
        "    </div>\n" \o
        "    <div class=\"content\">\n" \o
        "      <div class=\"task-name\">" \o
        Interp(data, "taskName") \o
        "</div>\n" \o
        "      " \o
        (IF Truthy(data, "description") THEN "<p>" \o Interp(data, "description") \o "</p>" ELSE "") \o
        "\n" \o
        "      " \o
        (IF Truthy(data, "dueDate") THEN "<p>Due Date: <span class=\"due-date\">" \o Interp(data, "dueDate") \o "</span></p>" ELSE "") \o
        "\n" \o
        "      " \o
        (IF Truthy(data, "url") THEN "<a href=\"" \o Interp(data, "url") \o "\" class=\"button\">View Task</a>" ELSE "") \o
        "\n" \o
        "    </div>\n" \o
        "    <div class=\"footer\">\n" \o
        "      <p>This is an automated reminder from Tidy Prioritize</p>\n" \o
        "    </div>\n" \o
        "  </div>\n" \o
        "</body>\n" \o
        "</html>\n" \o
        "    ",
     text |->
        "\n" \o
        "Task Reminder\n" \o
        "\n" \o
        Interp(data, "taskName") \o
        "\n" \o
        (IF Truthy(data, "description") THEN "\n" \o Interp(data, "description") \o "\n" ELSE "") \o
        "\n" \o
        (IF Truthy(data, "dueDate") THEN "Due Date: " \o Interp(data, "dueDate") \o "\n" ELSE "") \o
        "\n" \o
        (IF Truthy(data, "url") THEN "\n" \o "View Task: " \o Interp(data, "url") ELSE "") \o
        "\n" \o
        "\n" \o
        "---\n" \o
        "This is an automated reminder from Tidy Prioritize\n" \o
        "    "]

taskAssignedTemplate(data) ==
    [html |->
        "\n" \o
        "<!DOCTYPE html>\n" \o
        "<html>\n" \o
        "<head>\n" \o
        "  <style>\n" \o
        "    body { font-family: Arial, sans-serif; line-height: 1.6; color: #333; }\n" \o
        "    .container { max-width: 600px; margin: 0 auto; padding: 20px; }\n" \o
        "    .header { background-color: #10b981; color: white; padding: 20px; text-align: center; }\n" \o
        "    .content { background-color: #f9fafb; padding: 20px; margin-top: 20px; border-radius: 8px; }\n" \o
        "    .task-name { font-size: 20px; font-weight: bold; margin-bottom: 10px; }\n" \o
        "    .button { display: inline-block; background-color: #10b981; color: white; padding: 12px 24px; text-decoration: none; border-radius: 6px; margin-top: 20px; }\n" \o
        "    .footer { margin-top: 30px; text-align: center; color: #6b7280; font-size: 12px; }\n" \o
        "  </style>\n" \o
        "</head>\n" \o
        "<body>\n" \o
        "  <div class=\"container\">\n" \o
        "    <div class=\"header\">\n" \o
        "      <h1>New Task Assigned</h1>\n" \o
        "    </div>\n" \o
        "    <div class=\"content\">\n" \o
        "      <p>" \o
        Interp(data, "assignedBy") \o
        " has assigned you a new task:</p>\n" \o
        "      <div class=\"task-name\">" \o
        Interp(data, "taskName") \o
        "</div>\n" \o
        "      " \o
        (IF Truthy(data, "description") THEN "<p>" \o Interp(data, "description") \o "</p>" ELSE "") \o
        "\n" \o
        "      " \o
        (IF Truthy(data, "dueDate") THEN "<p>Due Date: " \o Interp(data, "dueDate") \o "</p>" ELSE "") \o
        "\n" \o
        "      " \o
        (IF Truthy(data, "url") THEN "<a href=\"" \o Interp(data, "url") \o "\" class=\"button\">View Task</a>" ELSE "") \o
        "\n" \o
        "    </div>\n" \o
        "    <div class=\"footer\">\n" \o
        "      <p>Tidy Prioritize - Keep your tasks organized</p>\n" \o
        "    </div>\n" \o
        "  </div>\n" \o
        "</body>\n" \o
        "</html>\n" \o
        "    ",
     text |->
        "\n" \o
        "New Task Assigned\n" \o
        "\n" \o
        Interp(data, "assignedBy") \o
        " has assigned you a new task:\n" \o
        "\n" \o
        Interp(data, "taskName") \o
        "\n" \o
        (IF Truthy(data, "description") THEN "\n" \o Interp(data, "description") \o "\n" ELSE "") \o
        "\n" \o
        (IF Truthy(data, "dueDate") THEN "Due Date: " \o Interp(data, "dueDate") \o "\n" ELSE "") \o
        "\n" \o
        (IF Truthy(data, "url") THEN "\n" \o "View Task: " \o Interp(data, "url") ELSE "") \o
        "\n" \o
        "\n" \o
        "---\n" \o
        "Tidy Prioritize - Keep your tasks organized\n" \o
        "    "]

taskCompletedTemplate(data) ==
    [html |->
        "\n" \o
        "<!DOCTYPE html>\n" \o
        "<html>\n" \o
        "<head>\n" \o
        "  <style>\n" \o
        "    body { font-family: Arial, sans-serif; line-height: 1.6; color: #333; }\n" \o
        "    .container { max-width: 600px; margin: 0 auto; padding: 20px; }\n" \o
        "    .header { background-color: #059669; color: white; padding: 20px; text-align: center; }\n" \o
        "    .content { background-color: #f9fafb; padding: 20px; margin-top: 20px; border-radius: 8px; }\n" \o
        "    .task-name { font-size: 20px; font-weight: bold; margin-bottom: 10px; color: #059669; }\n" \o
        "    .footer { margin-top: 30px; text-align: center; color: #6b7280; font-size: 12px; }\n" \o
        "  </style>\n" \o
        "</head>\n" \o
        "<body>\n" \o
        "  <div class=\"container\">\n" \o
        "    <div class=\"header\">\n" \o
        "      <h1> Task Completed</h1>\n" \o
        "    </div>\n" \o
        "    <div class=\"content\">\n" \o
        "      <div class=\"task-name\">" \o
        Interp(data, "taskName") \o
        "</div>\n" \o
        "      <p>Completed by: " \o
        Interp(data, "completedBy") \o
        "</p>\n" \o
        "      " \o
        (IF Truthy(data, "completedAt") THEN "<p>Completed at: " \o Interp(data, "completedAt") \o "</p>" ELSE "") \o
        "\n" \o
        "    </div>\n" \o
        "    <div class=\"footer\">\n" \o
        "      <p>Tidy Prioritize - Keep your tasks organized</p>\n" \o
        "    </div>\n" \o
        "  </div>\n" \o
        "</body>\n" \o
        "</html>\n" \o
        "    ",
     text |->
        "\n" \o
        " Task Completed\n" \o
        "\n" \o
        Interp(data, "taskName") \o
        "\n" \o
        "\n" \o
        "Completed by: " \o
        Interp(data, "completedBy") \o
        "\n" \o
        (IF Truthy(data, "completedAt") THEN "Completed at: " \o Interp(data, "completedAt") ELSE "") \o
        "\n" \o
        "\n" \o
        "---\n" \o
        "Tidy Prioritize - Keep your tasks organized\n" \o
        "    "]

welcomeTemplate(data) ==
    [html |->
        "\n" \o
        "<!DOCTYPE html>\n" \o
        "<html>\n" \o
        "<head>\n" \o
        "  <style>\n" \o
        "    body { font-family: Arial, sans-serif; line-height: 1.6; color: #333; }\n" \o
        "    .container { max-width: 600px; margin: 0 auto; padding: 20px; }\n" \o
        "    .header { background-color: #4F46E5; color: white; padding: 30px; text-align: center; }\n" \o
        "    .content { padding: 30px 20px; }\n" \o
        "    .button { display: inline-block; background-color: #4F46E5; color: white; padding: 12px 24px; text-decoration: none; border-radius: 6px; margin-top: 20px; }\n" \o
        "    .footer { margin-top: 30px; text-align: center; color: #6b7280; font-size: 12px; }\n" \o
        "  </style>\n" \o
        "</head>\n" \o
        "<body>\n" \o
        "  <div class=\"container\">\n" \o
        "    <div class=\"header\">\n" \o
        "      <h1>Welcome to Tidy Prioritize!</h1>\n" \o
        "    </div>\n" \o
        "    <div class=\"content\">\n" \o
        "      <p>Hi " \o
        OrElse(data, "userName", "there") \o
        ",</p>\n" \o
        "      <p>Welcome to Tidy Prioritize! We're excited to help you organize and prioritize your tasks effectively.</p>\n" \o
        "      <p>Get started by creating your first task and let our AI help you prioritize what matters most.</p>\n" \o
        "      " \o
        (IF Truthy(data, "loginUrl") THEN "<a href=\"" \o Interp(data, "loginUrl") \o "\" class=\"button\">Get Started</a>" ELSE "") \o
        "\n" \o
        "    </div>\n" \o
        "    <div class=\"footer\">\n" \o
        "      <p>Tidy Prioritize - Keep your tasks organized</p>\n" \o
        "    </div>\n" \o
        "  </div>\n" \o
        "</body>\n" \o
        "</html>\n" \o
        "    ",
     text |->
        "\n" \o
        "Welcome to Tidy Prioritize!\n" \o
        "\n" \o
        "Hi " \o
        OrElse(data, "userName", "there") \o
        ",\n" \o
        "\n" \o
        "Welcome to Tidy Prioritize! We're excited to help you organize and prioritize your tasks effectively.\n" \o
        "\n" \o
        "Get started by creating your first task and let our AI help you prioritize what matters most.\n" \o
        "\n" \o
        (IF Truthy(data, "loginUrl") THEN "Get Started: " \o Interp(data, "loginUrl") \o "\n" ELSE "") \o
        "\n" \o
        "\n" \o
        "---\n" \o
        "Tidy Prioritize - Keep your tasks organized\n" \o
        "    "]

passwordResetTemplate(data) ==
    [html |->
        "\n" \o
        "<!DOCTYPE html>\n" \o
        "<html>\n" \o
        "<head>\n" \o
        "  <style>\n" \o
        "    body { font-family: Arial, sans-serif; line-height: 1.6; color: #333; }\n" \o
        "    .container { max-width: 600px; margin: 0 auto; padding: 20px; }\n" \o
        "    .header { background-color: #dc2626; color: white; padding: 20px; text-align: center; }\n" \o
        "    .content { padding: 20px; }\n" \o
        "    .button { display: inline-block; background-color: #dc2626; color: white; padding: 12px 24px; text-decoration: none; border-radius: 6px; margin-top: 20px; }\n" \o
        "    .warning { background-color: #fef2f2; border-left: 4px solid #dc2626; padding: 12px; margin: 20px 0; }\n" \o
        "    .footer { margin-top: 30px; text-align: center; color: #6b7280; font-size: 12px; }\n" \o
        "  </style>\n" \o
        "</head>\n" \o
        "<body>\n" \o
        "  <div class=\"container\">\n" \o
        "    <div class=\"header\">\n" \o
        "      <h1>Password Reset Request</h1>\n" \o
        "    </div>\n" \o
        "    <div class=\"content\">\n" \o
        "      <p>You requested to reset your password. Click the button below to proceed:</p>\n" \o
        "      " \o
        (IF Truthy(data, "resetUrl") THEN "<a href=\"" \o Interp(data, "resetUrl") \o "\" class=\"button\">Reset Password</a>" ELSE "") \o
        "\n" \o
        "      <div class=\"warning\">\n" \o
        "        <strong>Security Notice:</strong> This link will expire in " \o
        OrElse(data, "expiresIn", "1 hour") \o
        ". If you didn't request this reset, please ignore this email.\n" \o
        "      </div>\n" \o
        "    </div>\n" \o
        "    <div class=\"footer\">\n" \o
        "      <p>Tidy Prioritize - Keep your tasks organized</p>\n" \o
        "    </div>\n" \o
        "  </div>\n" \o
        "</body>\n" \o
        "</html>\n" \o
        "    ",
     text |->
        "\n" \o
        "Password Reset Request\n" \o
        "\n" \o
        "You requested to reset your password. Click the link below to proceed:\n" \o
        "\n" \o
        OrElse(data, "resetUrl", "No reset URL provided") \o
        "\n" \o
        "\n" \o
        "SECURITY NOTICE: This link will expire in " \o
        OrElse(data, "expiresIn", "1 hour") \o
        ". If you didn't request this reset, please ignore this email.\n" \o
        "\n" \o
        "---\n" \o
        "Tidy Prioritize - Keep your tasks organized\n" \o
        "    "]

\* templates[templateName] on an object literal also finds what the literal
\* inherits from Object.prototype.  "constructor" is Object itself, a
\* function: Object(data) returns data, so the rendered content is read
\* from the caller's data bag.
renderTemplate(templateName, data) ==
    IF templateName \in RegisteredTemplates
    THEN LET r == CASE templateName = "task-reminder" -> taskReminderTemplate(data)
                    [] templateName = "task-assigned" -> taskAssignedTemplate(data)
                    [] templateName = "task-completed" -> taskCompletedTemplate(data)
                    [] templateName = "welcome" -> welcomeTemplate(data)
                    [] templateName = "password-reset" -> passwordResetTemplate(data)
         IN  [throws |-> "", html |-> r.html, text |-> r.text]
    ELSE IF templateName = "constructor"
    THEN [throws |-> "", html |-> data.html, text |-> data.text]
    ELSE [throws |-> "Template '" \o templateName \o "' not found",
          html |-> Absent, text |-> Absent]

\* value.replace(/&/g, '&amp;').replace(/</g, '&lt;').replace(/>/g, '&gt;')
\*      .replace(/"/g, '&quot;').replace(/'/g, '&#x27;')
\* Replacing & first, the other entities' own & are never replaced again:
\* every character is mapped once.
RECURSIVE escapeHtml(_)
escapeHtml(value) ==
    IF value = "" THEN ""
    ELSE LET ch == Char(value, 1)
             entity == CASE ch = "&" -> "&amp;"
                         [] ch = "<" -> "&lt;"
                         [] ch = ">" -> "&gt;"
                         [] ch = "\"" -> "&quot;"
                         [] ch = "'" -> "&#x27;"
                         [] OTHER -> ch
         IN  entity \o escapeHtml(SubSeq(value, 2, Len(value)))

\* sanitizeEmailData: every string value of the bag entity-encoded.  No
\* caller: neither the handler nor renderTemplate applies it.
sanitizeEmailData(data) == [f \in DOMAIN data |-> escapeHtml(data[f])]

\* The fields each template function destructures from the bag.
TemplateFields(templateName) ==
    CASE templateName = "task-reminder" -> {"taskName", "dueDate", "description", "url"}
      [] templateName = "task-assigned" ->
            {"taskName", "assignedBy", "description", "dueDate", "url"}
      [] templateName = "task-completed" -> {"taskName", "completedBy", "completedAt"}
      [] templateName = "welcome" -> {"userName", "loginUrl"}
      [] templateName = "password-reset" -> {"resetUrl", "expiresIn"}

\* User-entered text: a plain value, and one holding the five characters
\* HTML reserves.
Hostile == "<b>T&C's \"x\"</b>"
FieldValues == {"Ann", Hostile}
\* Every bag over the given fields: each field missing or holding a value.
Bags(fields) == UNION {[present -> FieldValues] : present \in SUBSET fields}

\* Well-formed requests for every registered template with every bag.
RenderRequests ==
    UNION {{MkReq("a@x.io", "Hi", templateName, Absent, Absent, data) :
                data \in Bags(TemplateFields(templateName))} :
           templateName \in RegisteredTemplates}

(* ------------------------------------------------------------- limiter *)
HourlyReason ==
    "Hourly rate limit exceeded. Maximum " \o ToString(maxEmailsPerHour)
        \o " emails per hour."
DailyReason ==
    "Daily rate limit exceeded. Maximum " \o ToString(maxEmailsPerDay)
        \o " emails per day."

\* oneHourAgo as the start of the calendar hour `now` lies in.
oneHourAgo_calendar(now) == (now \div Hour) * Hour

\* const oneHourAgo, oneDayAgo
oneHourAgo(now) == now - Hour
oneDayAgo(now) == now - Day

\* countSince without the .eq('user_id', userId) filter.
countSince_anyUser(logs, userId, since) ==
    Cardinality({i \in 1..Len(logs) : logs[i].created_at >= since})

\* countSince with the .eq('status', 'sent') filter the client's getStats has.
countSince_sentOnly(logs, userId, since) ==
    Cardinality({i \in 1..Len(logs) :
                    /\ logs[i].user_id = userId
                    /\ logs[i].status = "sent"
                    /\ logs[i].created_at >= since})

\* .eq('user_id', userId).gte('created_at', since), count: 'exact'
countSince(logs, userId, since) ==
    Cardinality({i \in 1..Len(logs) :
                    logs[i].user_id = userId /\ logs[i].created_at >= since})

\* hourlyExceeded with > for >=.
hourlyExceeded_strict(hourlyCount) == hourlyCount > maxEmailsPerHour

\* hourlyExceeded reading the other field of rateLimitConfig.
hourlyExceeded_dayLimit(hourlyCount) == hourlyCount >= maxEmailsPerDay

hourlyExceeded(hourlyCount) == hourlyCount >= maxEmailsPerHour

\* dailyExceeded with > for >=.
dailyExceeded_strict(dailyCount) == dailyCount > maxEmailsPerDay

dailyExceeded(dailyCount) == dailyCount >= maxEmailsPerDay

\* requestValid refusing, with the missing fields, a request whose content
\* is empty or whose template is not registered: content is looked at before
\* the limiter is asked.
requestValid_withContent(emailData) ==
    /\ emailData.to # Absent /\ emailData.subject # Absent
    /\ emailData.template # Absent => emailData.template \in RegisteredTemplates
    /\ emailData.template = Absent =>
          (emailData.html # Absent \/ emailData.text # Absent)

\* requestValid without the subject test.
requestValid_toOnly(emailData) == emailData.to # Absent

\* if (!emailData.to || !emailData.subject) -> 400
requestValid(emailData) == emailData.to # Absent /\ emailData.subject # Absent

(* ---------------------------------------------------------------- state *)
VARIABLES
    clock,       \* the wall clock, in ticks
    email_logs,  \* the email_logs table, in insertion order
    pc,          \* per handler invocation: where it is suspended
    ctx,         \* per handler invocation: its locals and what it did so far
    last,        \* the invocation that answered in the step just taken, with
                 \* its response; NoCtx when the step answered nobody
    hook         \* one useEmailNotifications instance: its React state and
                 \* the handleSend calls made through it

vars == <<clock, email_logs, pc, ctx, last, hook>>

NoCtx ==
    [method |-> "", auth |-> NoHeader, user |-> NoUser,
     emailData |-> MkReq(Absent, Absent, Absent, Absent, Absent, EmptyBag),
     now |-> 0, queries |-> 0, hLen |-> 0, dLen |-> 0,
     hourlyCount |-> 0, dailyCount |-> 0, allowed |-> "unknown", reason |-> "",
     rendered |-> FALSE, fetches |-> 0, provider |-> "none", providerText |-> "",
     inserts |-> 0, insertArgs |-> <<>>, insertOk |-> "none", appended |-> 0,
     status |-> 0, error |-> "", success |-> FALSE]

\* ---- useEmailNotifications: the React hook's state ----

\* Call sites that may hold a handleSend promise of one hook instance at once.
MaxCalls == 3

HookCalls == 1..MaxCalls

\* A handleSend call that was never made.
NoCall == [at |-> "idle", result |-> "none"]

\* useState(false), useState<Error | null>(null), and no call made yet.
HookInit == [sending |-> FALSE, error |-> "null", calls |-> [k \in HookCalls |-> NoCall]]

Init ==
    /\ clock = 0
    /\ email_logs = <<>>
    /\ pc = [p \in Procs |-> "idle"]
    /\ ctx = [p \in Procs |-> NoCtx]
    /\ last = NoCtx
    /\ hook = HookInit

\* new Response(JSON.stringify(...), { status })
Respond(c, status, error) == [c EXCEPT !.status = status, !.error = error]

(* --------------------------------------------------------------- logEmail *)
\* logRow without user_id: the row belongs to nobody.
logRow_anonymous(userId, emailData, status, error) ==
    [user_id |-> NoUser, recipient |-> emailData.to,
     subject |-> emailData.subject, template |-> emailData.template,
     status |-> status, error_message |-> error]

\* logRow without `error || null`: the reason is not stored.
logRow_dropsError(userId, emailData, status, error) ==
    [user_id |-> userId, recipient |-> emailData.to,
     subject |-> emailData.subject, template |-> emailData.template,
     status |-> status, error_message |-> Absent]

\* The row logEmail inserts (created_at is left to the table).
logRow(userId, emailData, status, error) ==
    [user_id |-> userId, recipient |-> emailData.to,
     subject |-> emailData.subject, template |-> emailData.template,
     status |-> status, error_message |-> error]

\* The row as the table stores it: created_at DEFAULT NOW().
insertedRow(row, createdAt) ==
    [user_id |-> row.user_id, recipient |-> row.recipient,
     subject |-> row.subject, template |-> row.template,
     status |-> row.status, error_message |-> row.error_message,
     created_at |-> createdAt]

\* insertInto as an upsert on (user_id, recipient, subject): a stored row of
\* the same key is overwritten.
insertInto_upsert(logs, row, createdAt, logError) ==
    IF logError THEN logs
    ELSE IF \E i \in 1..Len(logs) :
               /\ logs[i].user_id = row.user_id
               /\ logs[i].recipient = row.recipient
               /\ logs[i].subject = row.subject
    THEN LET i == CHOOSE i \in 1..Len(logs) :
                     /\ logs[i].user_id = row.user_id
                     /\ logs[i].recipient = row.recipient
                     /\ logs[i].subject = row.subject
         IN  [logs EXCEPT ![i] = insertedRow(row, createdAt)]
    ELSE Append(logs, insertedRow(row, createdAt))

\* insertInto storing the row twice.
insertInto_twice(logs, row, createdAt, logError) ==
    IF logError THEN logs
    ELSE Append(Append(logs, insertedRow(row, createdAt)),
                insertedRow(row, createdAt))

\* .from('email_logs').insert(row): the table afterwards.
insertInto(logs, row, createdAt, logError) ==
    IF logError THEN logs ELSE Append(logs, insertedRow(row, createdAt))

\* logEmail up to its await on the insert; `then` is what the handler does
\* once logEmail has returned.
startLog(c, status, error, thenStatus, thenError) ==
    [c EXCEPT !.inserts = @ + 1,
              !.insertArgs = <<logRow(c.user, c.emailData, status, error)>>,
              !.status = thenStatus, !.error = thenError]

(* -------------------------------------------------------------- sendEmail *)
\* Deno.env.get('RESEND_API_KEY'): the deployment sets it.
ApiKeyConfigured == {TRUE}

\* sendEmail up to its await on fetch: the message it throws, or "" when it
\* goes on to call the provider.
sendEmailThrows(emailData, apiKey) ==
    IF ~apiKey THEN "RESEND_API_KEY is not configured"
    ELSE LET r == IF emailData.template # Absent
                  THEN renderTemplate(emailData.template, emailData.data)
                  ELSE [throws |-> "", html |-> emailData.html,
                        text |-> emailData.text]
         IN  IF r.throws # "" THEN r.throws
             ELSE IF r.html = Absent /\ r.text = Absent
             THEN "Either html, text, or template must be provided"
             ELSE ""

\* afterAdmission logging the send before making it: the 'sent' row is
\* handed to the insert while the provider has not been called.
afterAdmission_logsFirst(p, c, apiKey) ==
    /\ ctx' = [ctx EXCEPT ![p] = startLog(c, "sent", Absent, 200, "")]
    /\ pc' = [pc EXCEPT ![p] = "insert"]

\* The handler from the limiter's verdict `allowed` on: the inner try block
\* up to the first await.
afterAdmission(p, c, apiKey) ==
    LET msg == sendEmailThrows(c.emailData, apiKey)
    IN  IF msg # ""
        THEN /\ ctx' = [ctx EXCEPT ![p] = startLog(c, "failed", msg, 500, msg)]
             /\ pc' = [pc EXCEPT ![p] = "insert"]
        ELSE /\ ctx' = [ctx EXCEPT ![p] = [c EXCEPT !.rendered = TRUE,
                                                    !.fetches = @ + 1]]
             /\ pc' = [pc EXCEPT ![p] = "fetch"]

(* ---------------------------------------------------------------- actions *)
inFlight == Cardinality({p \in Procs : pc[p] # "idle"})

\* A CORS preflight: answered before anything is read.
Preflight ==
    /\ last' = [Respond(NoCtx, 200, "") EXCEPT !.method = "OPTIONS"]
    /\ UNCHANGED <<clock, email_logs, pc, ctx, hook>>

\* A POST: authentication, body, validation, and checkRateLimit up to its
\* first count query.
Receive(p, creds, bodies, cap) ==
    /\ pc[p] = "idle"
    /\ Len(email_logs) + inFlight < cap
    /\ \E auth \in creds, emailData \in bodies :
         LET c == [NoCtx EXCEPT !.method = "POST",
                                !.auth = auth, !.user = getUser(auth),
                                !.emailData = emailData]
         IN  IF auth = NoHeader
             THEN /\ last' = Respond(c, 401, "Missing authorization header")
                  /\ UNCHANGED <<pc, ctx>>
             ELSE IF getUser(auth) = NoUser
             THEN /\ last' = Respond(c, 401, "User not authenticated")
                  /\ UNCHANGED <<pc, ctx>>
             ELSE IF ~requestValid(emailData)
             THEN /\ last' = Respond(c, 400, "Missing required fields: to, subject")
                  /\ UNCHANGED <<pc, ctx>>
             ELSE /\ ctx' = [ctx EXCEPT ![p] = [c EXCEPT !.now = clock,
                                                         !.queries = 1]]
                  /\ pc' = [pc EXCEPT ![p] = "hourly"]
                  /\ last' = NoCtx
    /\ UNCHANGED <<clock, email_logs, hook>>

\* The hourly count arrives.
HourlyQuery(p, storeErrors) ==
    /\ pc[p] = "hourly"
    /\ \E hourlyError \in storeErrors :
         IF hourlyError
         THEN /\ last' = Respond([ctx[p] EXCEPT !.allowed = "error"],
                                 500, "Unknown error")
              /\ ctx' = [ctx EXCEPT ![p] = NoCtx]
              /\ pc' = [pc EXCEPT ![p] = "idle"]
         ELSE LET n == countSince(email_logs, ctx[p].user, oneHourAgo(ctx[p].now))
                  c == [ctx[p] EXCEPT !.hourlyCount = n,
                                      !.hLen = Len(email_logs)]
              IN  IF hourlyExceeded(n)
                  THEN /\ ctx' = [ctx EXCEPT ![p] =
                             startLog([c EXCEPT !.allowed = "no",
                                                !.reason = HourlyReason],
                                      "failed", HourlyReason, 429, HourlyReason)]
                       /\ pc' = [pc EXCEPT ![p] = "insert"]
                       /\ last' = NoCtx
                  ELSE /\ ctx' = [ctx EXCEPT ![p] = [c EXCEPT !.queries = 2]]
                       /\ pc' = [pc EXCEPT ![p] = "daily"]
                       /\ last' = NoCtx
    /\ UNCHANGED <<clock, email_logs, hook>>

\* DailyQuery failing open: a query error is taken for a count of zero and
\* the request goes on to sendEmail.
DailyQuery_failOpen(p, storeErrors) ==
    /\ pc[p] = "daily"
    /\ \E dailyError \in storeErrors, apiKey \in ApiKeyConfigured :
         IF dailyError
         THEN afterAdmission(p, [ctx[p] EXCEPT !.allowed = "error",
                                               !.dLen = Len(email_logs)], apiKey)
         ELSE LET n == countSince(email_logs, ctx[p].user, oneDayAgo(ctx[p].now))
                  c == [ctx[p] EXCEPT !.dailyCount = n,
                                      !.dLen = Len(email_logs)]
              IN  IF dailyExceeded(n)
                  THEN /\ ctx' = [ctx EXCEPT ![p] =
                             startLog([c EXCEPT !.allowed = "no",
                                                !.reason = DailyReason],
                                      "failed", DailyReason, 429, DailyReason)]
                       /\ pc' = [pc EXCEPT ![p] = "insert"]
                  ELSE afterAdmission(p, [c EXCEPT !.allowed = "yes"], apiKey)
    /\ last' = NoCtx
    /\ UNCHANGED <<clock, email_logs, hook>>

\* The daily count arrives; an admitted request runs sendEmail up to fetch.
DailyQuery(p, storeErrors) ==
    /\ pc[p] = "daily"
    /\ \E dailyError \in storeErrors, apiKey \in ApiKeyConfigured :
         IF dailyError
         THEN /\ last' = Respond([ctx[p] EXCEPT !.allowed = "error"],
                                 500, "Unknown error")
              /\ ctx' = [ctx EXCEPT ![p] = NoCtx]
              /\ pc' = [pc EXCEPT ![p] = "idle"]
         ELSE LET n == countSince(email_logs, ctx[p].user, oneDayAgo(ctx[p].now))
                  c == [ctx[p] EXCEPT !.dailyCount = n,
                                      !.dLen = Len(email_logs)]
              IN  IF dailyExceeded(n)
                  THEN /\ ctx' = [ctx EXCEPT ![p] =
                             startLog([c EXCEPT !.allowed = "no",
                                                !.reason = DailyReason],
                                      "failed", DailyReason, 429, DailyReason)]
                       /\ pc' = [pc EXCEPT ![p] = "insert"]
                       /\ last' = NoCtx
                  ELSE /\ afterAdmission(p, [c EXCEPT !.allowed = "yes"], apiKey)
                       /\ last' = NoCtx
    /\ UNCHANGED <<clock, email_logs, hook>>

\* The provider answers (a 2xx answer carries the JSON body its API documents).
ProviderOutcomes == {"ok", "http500", "network"}
\* The provider's own words: the body of a non-2xx answer, or the message
\* of the error fetch rejects with.
providerText(outcome) ==
    IF outcome = "http500" THEN "boom"
    ELSE IF outcome = "network" THEN "error sending request" ELSE ""

\* providerError without the provider's words.
providerError_statusOnly(outcome) ==
    IF outcome = "http500" THEN "Email service error: " \o ToString(500)
    ELSE "fetch failed"

\* The message of the error sendEmail throws after the provider failed.
providerError(outcome) ==
    IF outcome = "http500"
    THEN "Email service error: " \o ToString(500) \o " - " \o providerText(outcome)
    ELSE providerText(outcome)

\* afterFetch calling the provider again after a failure, once.
afterFetch_retry(c, outcome) ==
    IF outcome = "ok"
    THEN [c |-> [startLog(c, "sent", Absent, 200, "") EXCEPT !.success = TRUE],
          pc |-> "insert"]
    ELSE IF c.fetches < 2
    THEN [c |-> [c EXCEPT !.fetches = @ + 1], pc |-> "fetch"]
    ELSE [c |-> startLog(c, "failed", providerError(outcome),
                         500, providerError(outcome)),
          pc |-> "insert"]

\* The handler from the provider's answer up to its await on the insert:
\* logEmail 'sent' after a delivery; after a failure the catch block's
\* logEmail 'failed', the error rethrown for the outer catch to answer.
afterFetch(c, outcome) ==
    IF outcome = "ok"
    THEN [c |-> [startLog(c, "sent", Absent, 200, "") EXCEPT !.success = TRUE],
          pc |-> "insert"]
    ELSE [c |-> startLog(c, "failed", providerError(outcome),
                         500, providerError(outcome)),
          pc |-> "insert"]

FetchResponse(p, outcomes) ==
    /\ pc[p] = "fetch"
    /\ \E outcome \in outcomes :
         LET c == [ctx[p] EXCEPT !.provider = outcome,
                                 !.providerText = providerText(outcome)]
         IN  /\ ctx' = [ctx EXCEPT ![p] = afterFetch(c, outcome).c]
             /\ pc' = [pc EXCEPT ![p] = afterFetch(c, outcome).pc]
    /\ last' = NoCtx
    /\ UNCHANGED <<clock, email_logs, hook>>

\* What the store reports when an insert fails.
LogErrorText == "insert failed"

\* afterInsert checking the hourly limit again on the table as it is at the
\* insert, and turning an admission into a rejection when it is reached.
afterInsert_recheck(c, logError) ==
    LET d == [c EXCEPT !.insertOk = IF logError THEN "error" ELSE "ok",
                       !.appended = IF logError THEN @ ELSE @ + 1]
    IN  IF /\ c.allowed = "yes"
           /\ hourlyExceeded(countSince(email_logs, c.user, oneHourAgo(c.now)))
        THEN [d EXCEPT !.allowed = "no", !.reason = HourlyReason,
                       !.status = 429, !.error = HourlyReason,
                       !.success = FALSE]
        ELSE d

\* afterInsert with logEmail throwing logError: the handler answers it.
afterInsert_throws(c, logError) ==
    IF logError
    THEN [c EXCEPT !.insertOk = "error", !.status = 500,
                   !.error = LogErrorText, !.success = FALSE]
    ELSE [c EXCEPT !.insertOk = "ok", !.appended = @ + 1]

\* logEmail from the insert's result on: logError is printed, never thrown,
\* and the handler answers what it had decided before the insert.
afterInsert(c, logError) ==
    [c EXCEPT !.insertOk = IF logError THEN "error" ELSE "ok",
              !.appended = IF logError THEN @ ELSE @ + 1]

\* The insert of logEmail completes, with or without logError.
InsertResponse(p, storeErrors) ==
    /\ pc[p] = "insert"
    /\ \E logError \in storeErrors :
         /\ email_logs' = insertInto(email_logs, ctx[p].insertArgs[1], clock, logError)
         /\ last' = afterInsert(ctx[p], logError)
    /\ ctx' = [ctx EXCEPT ![p] = NoCtx]
    /\ pc' = [pc EXCEPT ![p] = "idle"]
    /\ UNCHANGED <<clock, hook>>

Tick(horizon) ==
    /\ clock < horizon
    /\ clock' = clock + 1
    /\ last' = NoCtx
    /\ UNCHANGED <<email_logs, pc, ctx, hook>>

\* One handler invocation at a time, every request shape, one user.
Next ==
    \/ Preflight
    \/ \E p \in {"p1"} : Receive(p, {NoHeader, Stale, "u1"}, Requests, WideMaxRows)
    \/ \E p \in {"p1"} : HourlyQuery(p, BOOLEAN)
    \/ \E p \in {"p1"} : DailyQuery(p, BOOLEAN)
    \/ \E p \in {"p1"} : FetchResponse(p, ProviderOutcomes)
    \/ \E p \in {"p1"} : InsertResponse(p, BOOLEAN)
    \/ Tick(WideMaxTime)

Spec == Init /\ [][Next]_vars

\* One handler invocation at a time, both users, well-formed template
\* requests, enough rows and time for both windows to fill and to slide.
NextLimiter ==
    \/ Preflight
    \/ \E p \in {"p1"} : Receive(p, Users, CoreRequests, MaxRows)
    \/ \E p \in {"p1"} : HourlyQuery(p, BOOLEAN)
    \/ \E p \in {"p1"} : DailyQuery(p, BOOLEAN)
    \/ \E p \in {"p1"} : FetchResponse(p, {"ok", "http500"})
    \/ \E p \in {"p1"} : InsertResponse(p, BOOLEAN)
    \/ Tick(MaxTime)

SpecLimiter == Init /\ [][NextLimiter]_vars

\* One user whose dispatches never overlap, the store answering every query
\* and every insert without error.
NextSerial ==
    \/ \E p \in {"p1"} : Receive(p, {"u1"}, CoreRequests, MaxRows)
    \/ \E p \in {"p1"} : HourlyQuery(p, {FALSE})
    \/ \E p \in {"p1"} : DailyQuery(p, {FALSE})
    \/ \E p \in {"p1"} : FetchResponse(p, {"ok", "http500"})
    \/ \E p \in {"p1"} : InsertResponse(p, {FALSE})
    \/ Tick(MaxTime)

SpecSerial == Init /\ [][NextSerial]_vars

\* Requests whose content resolves, is empty, or names no template.
ContentRequests ==
    {r \in Requests : /\ r.to = "a@x.io" /\ r.subject = "Hi"
                      /\ r.template \in {"welcome", "bogus", Absent}
                      /\ (r.template = Absent => r.html = Absent)}

\* One user sending them one after the other, until both windows fill.
NextContent ==
    \/ \E p \in {"p1"} : Receive(p, {"u1"}, ContentRequests, MaxRows)
    \/ \E p \in {"p1"} : HourlyQuery(p, {FALSE})
    \/ \E p \in {"p1"} : DailyQuery(p, {FALSE})
    \/ \E p \in {"p1"} : FetchResponse(p, {"ok"})
    \/ \E p \in {"p1"} : InsertResponse(p, {FALSE})
    \/ Tick(MaxTime)

SpecContent == Init /\ [][NextContent]_vars

\* Two handler invocations of one user at a time, their steps interleaved:
\* the platform runs each request in its own invocation and nothing in the
\* handler waits for another.  Every insert succeeds.
NextRace ==
    \/ \E p \in Procs : Receive(p, {"u1"}, CoreRequests, RaceMaxRows)
    \/ \E p \in Procs : HourlyQuery(p, {FALSE})
    \/ \E p \in Procs : DailyQuery(p, {FALSE})
    \/ \E p \in Procs : FetchResponse(p, {"ok", "http500"})
    \/ \E p \in Procs : InsertResponse(p, {FALSE})
    \/ Tick(RaceMaxTime)

SpecRace == Init /\ [][NextRace]_vars

\* One dispatch of a template request, every registered template with every
\* data bag, the store and the provider answering without error.
NextRender ==
    \/ \E p \in {"p1"} : Receive(p, {"u1"}, RenderRequests, RenderMaxRows)
    \/ \E p \in {"p1"} : HourlyQuery(p, {FALSE})
    \/ \E p \in {"p1"} : DailyQuery(p, {FALSE})
    \/ \E p \in {"p1"} : FetchResponse(p, {"ok"})
    \/ \E p \in {"p1"} : InsertResponse(p, {FALSE})

SpecRender == Init /\ [][NextRender]_vars

\* Spec with the progress the platform gives a handler: the store answers
\* every count query and every insert, the continuation of an answered await
\* runs, and time passes.  Nothing obliges the provider to answer the
\* fetch, and sendEmail sets neither a timer nor an AbortSignal on it, so
\* no step but the provider's answer takes an invocation out of "fetch".
Fairness ==
    /\ WF_vars(\E p \in {"p1"} : HourlyQuery(p, BOOLEAN))
    /\ WF_vars(\E p \in {"p1"} : DailyQuery(p, BOOLEAN))
    /\ WF_vars(\E p \in {"p1"} : InsertResponse(p, BOOLEAN))
    /\ WF_vars(Tick(WideMaxTime))

SpecLive == Init /\ [][Next]_vars /\ Fairness

(* ---------------------------------------------------------- client facade *)
\* EmailNotificationClient.RATE_LIMITS: the client's own copy of the limits,
\* 10 and 50 like rateLimitConfig and scaled down with it.
RATE_LIMITS ==
    [maxEmailsPerHour |-> maxEmailsPerHour, maxEmailsPerDay |-> maxEmailsPerDay]

\* supabase.functions.invoke on a non-2xx answer: `error` is set and `data`
\* is null.  error.message is the client library's own text for any non-2xx
\* answer; a library that surfaced the body's `error` field instead is the
\* other outcome allowed for here.
NonOkMessage == "Edge Function returned a non-2xx status code"
invokeErrorMessages(status, error) ==
    IF status = 200 THEN {} ELSE {NonOkMessage, error}

\* String.prototype.includes
Contains(str, part) ==
    \E i \in 1..(Len(str) - Len(part) + 1) : SubSeq(str, i, i + Len(part) - 1) = part

RateLimitMessage ==
    "Rate limit exceeded. You can send up to "
        \o ToString(RATE_LIMITS.maxEmailsPerHour) \o " emails per hour and "
        \o ToString(RATE_LIMITS.maxEmailsPerDay) \o " emails per day."

\* EmailNotificationClient.send: the message of the Error it throws when
\* invoke reported `message` (error.message || 'Failed to send email').
send(message) ==
    LET thrown == IF message = "" THEN "Failed to send email" ELSE message
    IN  IF Contains(thrown, "rate limit") THEN RateLimitMessage ELSE thrown

\* new Date(now.getFullYear(), now.getMonth(), now.getDate()): midnight of
\* the client's local day.  A local day lasts 24 hours, or an hour less or
\* more where the clocks change, so midnight is any instant from now back to
\* less than 25 hours ago.
LongestLocalDay == Day + Hour
LocalMidnights(now) == (now - LongestLocalDay + 1)..now

\* The rows a client query counts: .eq('status', status).gte('created_at',
\* since) on the rows the SELECT policy shows the user, its own.
clientCount(logs, userId, status, since) ==
    Cardinality({i \in 1..Len(logs) :
                    /\ logs[i].user_id = userId
                    /\ logs[i].status = status
                    /\ logs[i].created_at >= since})

\* getStats with the hourly count taken since midnight.
getStats_hourSinceMidnight(logs, userId, now, today) ==
    [sentToday |-> clientCount(logs, userId, "sent", today),
     sentThisHour |-> clientCount(logs, userId, "sent", today),
     failedToday |-> clientCount(logs, userId, "failed", today)]

\* EmailNotificationClient.getStats (totalSent, which no check reads, left
\* out).
getStats(logs, userId, now, today) ==
    [sentToday |-> clientCount(logs, userId, "sent", today),
     sentThisHour |-> clientCount(logs, userId, "sent", oneHourAgo(now)),
     failedToday |-> clientCount(logs, userId, "failed", today)]

Max(a, b) == IF a >= b THEN a ELSE b
calculateRemainingEmails(stats, limits) ==
    LET remainingThisHour == limits.maxEmailsPerHour - stats.sentThisHour
        remainingToday == limits.maxEmailsPerDay - stats.sentToday
    IN  [remainingThisHour |-> Max(0, remainingThisHour),
         remainingToday |-> Max(0, remainingToday),
         canSend |-> remainingThisHour > 0 /\ remainingToday > 0]

\* ---- useEmailNotifications: handleSend ----

\* What the awaited client method rejects with: the Error that
\* EmailNotificationClient.send throws for an invocation the function did not
\* answer with 200.
FnErrors ==
    {[isError |-> TRUE, message |-> send(m)] :
        m \in invokeErrorMessages(429, HourlyReason) \cup {""}}

\* What a caller's onSuccess / onError does when handleSend calls it: it
\* returns (as an absent callback does), or it throws an Error or some other
\* value.
CallbackError == [isError |-> TRUE, message |-> "callback failed"]
CallbackValue == [isError |-> FALSE, message |-> ""]
Callbacks == {"returns", "throws Error", "throws value"}
Thrown(callback) == IF callback = "throws Error" THEN CallbackError ELSE CallbackValue

\* err instanceof Error ? err : new Error('Unknown error')
errorObj(err) == IF err.isError THEN err.message ELSE "Unknown error"

\* The catch and finally blocks of handleSend for call k: setError(errorObj),
\* the toast (no state of the hook), onError?.(errorObj), return null, and
\* setSending(false) on the way out.  A throwing onError leaves the promise
\* rejected instead of resolved with null.
catchAndFinally(k, err, onError) ==
    hook' = [hook EXCEPT
                !.error = errorObj(err),
                !.calls[k] = IF onError = "returns"
                             THEN [at |-> "returned", result |-> "null"]
                             ELSE [at |-> "threw", result |-> "none"],
                !.sending = FALSE]

\* handleSend up to its await: setSending(true); setError(null); fn(...args).
\* sendEmail, sendTaskReminder, sendTaskAssigned and sendTaskCompleted all
\* enter here, each with its own client method as fn.
HandleSendStart(k) ==
    /\ hook.calls[k].at # "awaiting"
    /\ hook' = [hook EXCEPT !.sending = TRUE, !.error = "null",
                            !.calls[k] = [at |-> "awaiting", result |-> "none"]]
    /\ UNCHANGED <<clock, email_logs, pc, ctx, last>>

\* fn resolved: the toast, onSuccess?.(response), return response, and the
\* finally block's setSending(false).  onSuccess is called inside the try, so
\* what it throws is caught like a rejection of fn.
HandleSendResolved(k) ==
    /\ hook.calls[k].at = "awaiting"
    /\ \E onSuccess \in Callbacks, onError \in Callbacks :
          IF onSuccess = "returns"
          THEN hook' = [hook EXCEPT
                           !.calls[k] = [at |-> "returned", result |-> "response"],
                           !.sending = FALSE]
          ELSE catchAndFinally(k, Thrown(onSuccess), onError)
    /\ UNCHANGED <<clock, email_logs, pc, ctx, last>>

\* fn rejected: the catch block, then the finally block.
HandleSendRejected(k) ==
    /\ hook.calls[k].at = "awaiting"
    /\ \E err \in FnErrors, onError \in Callbacks : catchAndFinally(k, err, onError)
    /\ UNCHANGED <<clock, email_logs, pc, ctx, last>>

\* One hook instance and the sends started through it, the function's side
\* left out: a send's outcome is all the hook sees of it.
NextHook ==
    \/ \E k \in HookCalls : HandleSendStart(k)
    \/ \E k \in HookCalls : HandleSendResolved(k)
    \/ \E k \in HookCalls : HandleSendRejected(k)

SpecHook == Init /\ [][NextHook]_vars

(* ================================================================ claims *)
\* A POST was answered in the step just taken.
Answered == last.method = "POST"
\* ... and checkRateLimit had returned a verdict for it.
LimiterReturned == Answered /\ last.allowed \in {"yes", "no"}

\* The table as the invocation's count queries saw it.  Rows are only ever
\* appended, so a prefix of the table is the table of an earlier moment.
SeenAtHourly == SubSeq(email_logs, 1, last.hLen)
SeenAtDaily ==
    SubSeq(email_logs, 1, IF last.queries = 2 THEN last.dLen ELSE last.hLen)

\* The identity's records of the given outcomes timestamped within the last
\* `span` ticks before `now`.
RecordsWithin(logs, identity, now, span, outcomes) ==
    Cardinality({i \in 1..Len(logs) :
                    /\ logs[i].user_id = identity
                    /\ logs[i].status \in outcomes
                    /\ logs[i].created_at <= now
                    /\ now - logs[i].created_at <= span})
AnyOutcome == {"sent", "failed"}
LastHour == RecordsWithin(SeenAtHourly, last.user, last.now, Hour, AnyOutcome)
LastDay == RecordsWithin(SeenAtDaily, last.user, last.now, Day, AnyOutcome)

NamesHourly(reason) == Contains(reason, "Hourly rate limit")
NamesDaily(reason) == Contains(reason, "Daily rate limit")

\* The rows of the table the answered invocation added (one invocation at a
\* time: nobody else adds rows between its first query and its answer).
Created == Len(email_logs) - last.hLen
\* The row the answered invocation handed to the insert.
Handed == last.insertArgs[1]
\* The newest row of the table is that row.
NewestIsHanded ==
    /\ Len(email_logs) > 0
    /\ LET r == email_logs[Len(email_logs)]
       IN  /\ r.user_id = Handed.user_id /\ r.recipient = Handed.recipient
           /\ r.subject = Handed.subject /\ r.template = Handed.template
           /\ r.status = Handed.status /\ r.error_message = Handed.error_message

\* C1: the limiter admits exactly when the identity's records of the last
\* hour before `now` number fewer than maxEmailsPerHour and those of the last
\* day before `now` fewer than maxEmailsPerDay; both windows end at `now`.
C1_AdmittedIffUnderBothLimits ==
    LimiterReturned =>
        (last.allowed = "yes" <=>
            (LastHour < maxEmailsPerHour /\ LastDay < maxEmailsPerDay))

\* An identity with maxEmailsPerHour records or more is admitted, the older
\* ones having slid out of the hour.
C1_Witness ==
    /\ LimiterReturned /\ last.allowed = "yes"
    /\ RecordsWithin(SeenAtHourly, last.user, last.now, MaxTime, AnyOutcome)
           >= maxEmailsPerHour

\* C2: a rejected request hands one row to the insert, status failed with the
\* rejection reason, is answered 429 with that reason, and the provider is
\* never called; the stored row makes the identity's rows one more.
C2_RejectionLoggedAndAnswered ==
    (Answered /\ last.allowed = "no") =>
        /\ last.reason \in {HourlyReason, DailyReason}
        /\ last.status = 429 /\ last.error = last.reason
        /\ last.fetches = 0 /\ last.provider = "none"
        /\ last.inserts = 1
        /\ Handed.status = "failed" /\ Handed.error_message = last.reason
        /\ Handed.user_id = last.user
        /\ last.insertOk = "ok" =>
              /\ Created = 1 /\ NewestIsHanded
              /\ RecordsWithin(email_logs, last.user, MaxTime, MaxTime, AnyOutcome)
                   = RecordsWithin(SeenAtHourly, last.user, MaxTime, MaxTime, AnyOutcome) + 1

C2_Witness ==
    /\ Answered /\ last.allowed = "no" /\ last.insertOk = "ok"
    /\ NamesHourly(last.error)
    /\ last.hourlyCount = maxEmailsPerHour

\* C3: once the provider has answered, the row handed to the insert and the
\* answer to the caller agree with it: sent, the request's template and 200
\* on success; failed with the provider's words and 500 with the same
\* message on failure.
C3_RecordAndResultMirrorProvider ==
    (Answered /\ last.provider # "none") =>
        /\ last.inserts = 1
        /\ last.provider = "ok" =>
              /\ last.status = 200 /\ last.success /\ last.error = ""
              /\ Handed.status = "sent" /\ Handed.error_message = Absent
              /\ Handed.template = last.emailData.template
        /\ last.provider # "ok" =>
              /\ last.status = 500 /\ ~last.success
              /\ Contains(last.error, last.providerText)
              /\ Handed.status = "failed"
              /\ Handed.error_message = last.error
              /\ Contains(Handed.error_message, last.providerText)
        /\ last.insertOk = "ok" => NewestIsHanded

C3_Witness ==
    /\ Answered /\ last.provider = "http500" /\ last.insertOk = "ok"
    /\ last.emailData.template = "welcome"

\* C4 as claimed: every attempt that was sent, failed at the provider or was
\* rejected by the limiter leaves exactly one row.
C4_ExactlyOneRecord ==
    (Answered /\ (last.provider # "none" \/ last.allowed = "no")) => Created = 1

\* C4, amended: such an attempt hands exactly one row to the insert and
\* leaves at most one row: one when the insert succeeds, none when it fails.
C4_OneInsertAtMostOneRecord ==
    (Answered /\ (last.provider # "none" \/ last.allowed = "no")) =>
        /\ last.inserts = 1
        /\ Created <= 1
        /\ (Created = 1 <=> last.insertOk = "ok")

C4_Witness ==
    /\ Answered /\ last.allowed = "no" /\ last.insertOk = "ok" /\ Created = 1

\* C5: the reason names the hourly limit whenever the last hour holds
\* maxEmailsPerHour records or more, whatever the day holds; it names the
\* daily limit exactly when the hour is under its limit and the day is not.
C5_ReasonNamesTheLimit ==
    LimiterReturned =>
        /\ LastHour >= maxEmailsPerHour =>
              (last.allowed = "no" /\ NamesHourly(last.reason))
        /\ NamesDaily(last.reason) <=>
              (LastHour < maxEmailsPerHour /\ LastDay >= maxEmailsPerDay)
        /\ ~(NamesHourly(last.reason) /\ NamesDaily(last.reason))

\* Nothing in the last hour, the day full: the daily reason.
C5_Witness ==
    /\ LimiterReturned /\ NamesDaily(last.reason) /\ LastHour = 0

\* C6: the counts the limiter reads are the records of every outcome, so
\* failed records alone, of rejected attempts or of failed deliveries, fill
\* either window and have the next attempt rejected.
C6_FailedRecordsConsumeQuota ==
    LimiterReturned =>
        /\ last.hourlyCount =
              RecordsWithin(SeenAtHourly, last.user, last.now, Hour, {"sent"})
              + RecordsWithin(SeenAtHourly, last.user, last.now, Hour, {"failed"})
        /\ last.queries = 2 =>
              last.dailyCount =
                 RecordsWithin(SeenAtDaily, last.user, last.now, Day, {"sent"})
                 + RecordsWithin(SeenAtDaily, last.user, last.now, Day, {"failed"})
        /\ RecordsWithin(SeenAtHourly, last.user, last.now, Hour, {"failed"})
              >= maxEmailsPerHour => last.allowed = "no"
        /\ RecordsWithin(SeenAtDaily, last.user, last.now, Day, {"failed"})
              >= maxEmailsPerDay => last.allowed = "no"

\* A rejection with no sent record at all in the day, one of the failed
\* records being that of an earlier rejection.
C6_Witness ==
    /\ LimiterReturned /\ last.allowed = "no"
    /\ RecordsWithin(SeenAtHourly, last.user, last.now, Day, {"sent"}) = 0
    /\ \E i \in 1..last.hLen :
          /\ email_logs[i].user_id = last.user
          /\ email_logs[i].error_message \in {HourlyReason, DailyReason}
          /\ last.now - email_logs[i].created_at <= Hour

\* C7: when the insert fails the caller is told what the send came to: 200
\* after a delivery, the provider's error after a failed one, the reason
\* after a rejection, and never the insert's error.
C7_LogFailureKeepsAnswer ==
    (Answered /\ last.insertOk = "error") =>
        /\ last.error # LogErrorText
        /\ last.provider = "ok" =>
              (last.status = 200 /\ last.success /\ last.error = "")
        /\ last.provider \notin {"ok", "none"} =>
              (last.status = 500 /\ Contains(last.error, last.providerText))
        /\ last.allowed = "no" =>
              (last.status = 429 /\ last.error = last.reason)

C7_Witness ==
    /\ Answered /\ last.insertOk = "error" /\ last.provider = "ok"
    /\ last.status = 200 /\ Created = 0

\* C8: an authenticated request without recipient or without subject is
\* answered 400 at once: no count query, no provider call, no insert, and no
\* invocation with such a request is ever past validation.
C8_MissingFieldsRefused ==
    /\ (/\ Answered /\ last.user # NoUser
         /\ (last.emailData.to = Absent \/ last.emailData.subject = Absent)) =>
            /\ last.status = 400
            /\ last.queries = 0 /\ last.fetches = 0
            /\ last.inserts = 0 /\ last.appended = 0
    /\ \A p \in Procs :
          pc[p] # "idle" =>
             (ctx[p].emailData.to # Absent /\ ctx[p].emailData.subject # Absent)

C8_Witness ==
    /\ Answered /\ last.status = 400 /\ last.user = "u1"
    /\ last.emailData.to # Absent /\ last.emailData.subject = Absent

\* C9 as claimed: an authenticated request whose recipient is not empty and
\* not a well-formed address is answered 400, is never handed to the
\* provider and hands no row to the insert (the store answering whatever the
\* handler asks of it).
C9_MalformedAddressRefused ==
    (/\ Answered /\ last.user # NoUser /\ last.allowed # "error"
     /\ last.emailData.to # Absent /\ ~isValidEmail(last.emailData.to)) =>
        /\ last.status = 400
        /\ last.fetches = 0
        /\ last.inserts = 0

\* C10 as claimed: an admitted request naming a template that is not
\* registered is answered with a validation error (400), without a provider
\* call and without a row.
C10_UnknownTemplateRefused ==
    (/\ Answered /\ last.allowed = "yes"
     /\ last.emailData.template # Absent
     /\ last.emailData.template \notin RegisteredTemplates) =>
        /\ last.status = 400
        /\ last.fetches = 0
        /\ last.inserts = 0 /\ last.appended = 0

\* C11 as claimed: an admitted request with no template, no html and no text
\* is answered with a validation error (400) before any provider call, and
\* no row is handed to the insert or appended.
C11_NoContentRefusedWithoutRecord ==
    (/\ Answered /\ last.allowed = "yes"
     /\ last.emailData.template = Absent
     /\ last.emailData.html = Absent /\ last.emailData.text = Absent) =>
        /\ last.status = 400
        /\ last.fetches = 0
        /\ last.inserts = 0 /\ last.appended = 0

\* C12: no invocation calls the provider more than once; a dispatch whose
\* provider call failed is answered 500 after that one call and one insert
\* of a failed row, and no dispatch adds more than one row to the table.
C12_ProviderCalledAtMostOnce ==
    /\ \A p \in Procs : ctx[p].fetches <= 1 /\ ctx[p].inserts <= 1
    /\ Answered =>
          /\ last.fetches <= 1 /\ last.inserts <= 1 /\ last.appended <= 1
    /\ LimiterReturned => Created <= 1
    /\ (Answered /\ last.provider \notin {"ok", "none"}) =>
          /\ last.fetches = 1 /\ last.inserts = 1
          /\ Handed.status = "failed"
          /\ last.status = 500 /\ ~last.success

\* A provider failure answered after one call, its failed row stored.
C12_Witness ==
    /\ Answered /\ last.provider = "network" /\ last.fetches = 1
    /\ last.insertOk = "ok" /\ Created = 1
    /\ email_logs[Len(email_logs)].status = "failed"

\* The identity's own records, and how many of a list of records are
\* timestamped `since` or later.
Own(logs, identity) == SelectSeq(logs, LAMBDA r : r.user_id = identity)
Since(logs, since) ==
    Cardinality({i \in 1..Len(logs) : logs[i].created_at >= since})
OwnLastHour == Since(Own(SeenAtHourly, last.user), last.now - Hour)
OwnLastDay == Since(Own(SeenAtDaily, last.user), last.now - Day)

\* C13: the counts the limiter reads and its verdict are those it would
\* read and reach on the identity's own records alone, whatever records of
\* other identities the table holds; and a dispatch leaves the records of
\* every other identity, hence their counts, as they were.
C13_QuotaScopedPerIdentity ==
    LimiterReturned =>
        /\ last.hourlyCount = OwnLastHour
        /\ last.queries = 2 => last.dailyCount = OwnLastDay
        /\ last.allowed = "yes" <=>
              (OwnLastHour < maxEmailsPerHour /\ OwnLastDay < maxEmailsPerDay)
        /\ \A other \in Users \ {last.user} :
              Own(email_logs, other) = Own(SeenAtHourly, other)

\* An identity is admitted and its row stored while another identity has
\* filled its hour.
C13_Witness ==
    /\ LimiterReturned /\ last.allowed = "yes" /\ Created = 1
    /\ \E other \in Users \ {last.user} :
          Since(Own(SeenAtHourly, other), last.now - Hour) >= maxEmailsPerHour

\* C14: every step leaves the rows the table held in place and unchanged:
\* the table of before is a prefix of the table of after.
IsPrefix(s, t) == Len(s) <= Len(t) /\ SubSeq(t, 1, Len(s)) = s
C14_AuditLogAppendOnly == [][IsPrefix(email_logs, email_logs')]_vars

\* A row was just stored in a table that held rows of both outcomes.
C14_Witness ==
    /\ Answered /\ last.insertOk = "ok" /\ Created = 1
    /\ \E i, j \in 1..last.hLen :
          email_logs[i].status = "sent" /\ email_logs[j].status = "failed"

\* The reason of a rejection by the other limit.
OtherReason(reason) == IF reason = HourlyReason THEN DailyReason ELSE HourlyReason

\* C15 as claimed: a rejection is answered with the limiter's reason, which
\* differs from the reason of a rejection by the other limit, and what the
\* client facade's send throws for it differs from what it throws for a
\* rejection by the other limit.
C15_ReasonDistinguishesLimitEndToEnd ==
    (Answered /\ last.allowed = "no") =>
        /\ last.error = last.reason
        /\ last.error # OtherReason(last.reason)
        /\ \A mine \in invokeErrorMessages(last.status, last.error),
              other \in invokeErrorMessages(429, OtherReason(last.reason)) :
                send(mine) # send(other)

\* C16: a request without authorization header, or whose credential
\* resolves to no user, is answered 401 with no count query, no provider
\* call and no insert, the table being left as it was; and no invocation is
\* ever past authentication without a user.
C16_UnauthenticatedHasNoEffect ==
    /\ (Answered /\ last.auth \in {NoHeader, Stale}) =>
          /\ last.status = 401 /\ ~last.success
          /\ last.queries = 0 /\ last.allowed = "unknown"
          /\ last.fetches = 0 /\ last.provider = "none"
          /\ last.inserts = 0 /\ last.appended = 0
    /\ \A p \in Procs :
          pc[p] # "idle" => (ctx[p].auth \in Users /\ ctx[p].user = ctx[p].auth)
    /\ \A i \in 1..Len(email_logs) : email_logs[i].user_id \in Users

\* A credential of no user, carrying a request that is otherwise well
\* formed, is answered 401 while the table already holds a row.
C16_Witness ==
    /\ Answered /\ last.auth = Stale /\ last.status = 401
    /\ requestValid(last.emailData) /\ last.emailData.template = "welcome"
    /\ Len(email_logs) > 0

\* The answered dispatch left a Sent row of its identity, recipient and
\* subject in the table.
SentRowStored ==
    \E i \in (last.hLen + 1)..Len(email_logs) :
        /\ email_logs[i].status = "sent"
        /\ email_logs[i].user_id = last.user
        /\ email_logs[i].recipient = last.emailData.to
        /\ email_logs[i].subject = last.emailData.subject

C18_EveryDispatchReturns ==
    \A p \in Procs : (pc[p] # "idle") ~> (pc[p] = "idle")

\* What sendEmail handed to the provider for the answered dispatch of a
\* registered template: the rendering of its data bag.
TemplateDelivered ==
    /\ Answered /\ last.rendered /\ last.fetches = 1
    /\ last.emailData.template \in RegisteredTemplates
Delivered == renderTemplate(last.emailData.template, last.emailData.data)
ReservedChars == {"&", "<", ">", "\"", "'"}
HasReserved(value) == \E i \in 1..Len(value) : Char(value, i) \in ReservedChars
\* The fields of the bag the template embeds in its markup.
Embedded ==
    {f \in TemplateFields(last.emailData.template) : Truthy(last.emailData.data, f)}

\* C19 as claimed: a value holding reserved characters is in the rendered
\* HTML with each of them replaced by its entity, and nowhere as supplied.
C19_ValuesEscapedInHtml ==
    TemplateDelivered =>
        \A f \in Embedded :
            HasReserved(last.emailData.data[f]) =>
                /\ Contains(Delivered.html, sanitizeEmailData(last.emailData.data)[f])
                /\ ~Contains(Delivered.html, last.emailData.data[f])

\* C20 as claimed: a registered template rendered from a bag in which fields
\* are missing, the empty bag included, does not throw, yields html and text
\* that are not empty, and neither holds the text "undefined".
C20_MissingFieldsDegradeGracefully ==
    (/\ TemplateDelivered
     /\ \E f \in TemplateFields(last.emailData.template) :
           ~Has(last.emailData.data, f)) =>
        /\ Delivered.throws = ""
        /\ Delivered.html # "" /\ Delivered.text # ""
        /\ ~Contains(Delivered.html, "undefined")
        /\ ~Contains(Delivered.text, "undefined")

\* The identity's Sent rows of the table timestamped `since` or later.
SentSince(identity, since) ==
    Cardinality({i \in 1..Len(email_logs) :
                    /\ email_logs[i].user_id = identity
                    /\ email_logs[i].status = "sent"
                    /\ email_logs[i].created_at >= since})

\* C21: the verdict of an invocation rests on the rows stored when its count
\* queries ran and on nothing else: rows that overlapping invocations of the
\* same identity were admitted for and have not stored yet are not counted,
\* and rows stored after the queries do not revoke an admission.
C21_AdmissionIgnoresInFlight ==
    LimiterReturned =>
        /\ last.hourlyCount = OwnLastHour
        /\ last.queries = 2 => last.dailyCount = OwnLastDay
        /\ last.allowed = "yes" <=>
              (OwnLastHour < maxEmailsPerHour /\ OwnLastDay < maxEmailsPerDay)

\* Two overlapping dispatches were admitted on the same count
\* maxEmailsPerHour - 1 and both delivered: the row of the other was stored
\* between this one's query and its own insert, and the identity has
\* maxEmailsPerHour + 1 Sent rows within the last hour.
C21_Witness ==
    /\ LimiterReturned /\ last.allowed = "yes" /\ last.provider = "ok"
    /\ last.hourlyCount = maxEmailsPerHour - 1
    /\ Created = 2
    /\ email_logs[Len(email_logs) - 1].status = "sent"
    /\ email_logs[Len(email_logs) - 1].user_id = last.user
    /\ SentSince(last.user, clock - Hour) = maxEmailsPerHour + 1

\* The rejection rows are those whose error_message is a limiter reason;
\* every other row is that of an admitted dispatch, delivered or not.
FromAdmitted(row) == row.error_message \notin {HourlyReason, DailyReason}
\* The identity's rows of admitted dispatches timestamped within the closed
\* window [from, from + span].
AdmittedWithin(identity, from, span) ==
    Cardinality({i \in 1..Len(email_logs) :
                    /\ email_logs[i].user_id = identity
                    /\ FromAdmitted(email_logs[i])
                    /\ email_logs[i].created_at >= from
                    /\ email_logs[i].created_at <= from + span})
\* The most invocations that are in flight at once.
K == Cardinality(Procs)

\* C23: with at most K invocations in flight at once and every insert
\* succeeding, no window of one hour holds more than maxEmailsPerHour + K - 1
\* rows of admitted dispatches of one identity.
C23_OvershootBoundedByConcurrency ==
    \A identity \in Users, from \in 0..RaceMaxTime :
        AdmittedWithin(identity, from, Hour) <= maxEmailsPerHour + K - 1

\* The bound is met: maxEmailsPerHour + K - 1 such rows within one hour, the
\* last of them just stored.
C23_Witness ==
    /\ Answered /\ last.allowed = "yes" /\ last.insertOk = "ok"
    /\ \E from \in 0..RaceMaxTime :
          AdmittedWithin(last.user, from, Hour) = maxEmailsPerHour + K - 1

\* C22: when the dispatches of an identity never overlap, no closed window
\* of one hour holds more than maxEmailsPerHour of its rows of admitted
\* dispatches, and no closed window of 24 hours more than maxEmailsPerDay.
C22_SerialDispatchesKeepLimits ==
    \A identity \in Users, from \in 0..MaxTime :
        /\ AdmittedWithin(identity, from, Hour) <= maxEmailsPerHour
        /\ AdmittedWithin(identity, from, Day) <= maxEmailsPerDay

\* Both limits are met at once, by Sent and by delivery-failed rows, the
\* table holding more rows than either limit.
C22_Witness ==
    /\ Answered /\ last.allowed = "yes" /\ last.insertOk = "ok"
    /\ \E from \in 0..MaxTime :
          AdmittedWithin(last.user, from, Hour) = maxEmailsPerHour
    /\ \E from \in 0..MaxTime :
          AdmittedWithin(last.user, from, Day) = maxEmailsPerDay
    /\ Len(email_logs) > maxEmailsPerDay
    /\ \E i, j \in 1..Len(email_logs) :
          /\ FromAdmitted(email_logs[i]) /\ email_logs[i].status = "failed"
          /\ email_logs[j].status = "sent"

\* The identity's rows, as the hourly query saw the table, timestamped
\* strictly after now - 1h.
OwnAfterHourAgo ==
    Cardinality({i \in 1..last.hLen :
                    /\ email_logs[i].user_id = last.user
                    /\ email_logs[i].created_at > last.now - Hour})

\* C24 as claimed: the hourly window is (now - 1h, now]: an identity with
\* fewer than maxEmailsPerHour rows strictly younger than one hour, rows
\* exactly one hour old not counting, and under its daily limit is admitted.
C24_HourlyWindowHalfOpen ==
    (/\ LimiterReturned
     /\ OwnAfterHourAgo < maxEmailsPerHour
     /\ Since(Own(SeenAtHourly, last.user), last.now - Day) < maxEmailsPerDay) =>
        last.allowed = "yes"

\* Every row of the identity, as the queries saw the table, is at least 24
\* hours old: the identity stored nothing for 24 hours.
IdleForADay ==
    \A i \in 1..last.hLen :
        email_logs[i].user_id = last.user =>
            email_logs[i].created_at <= last.now - Day

\* C26 as claimed: the valid dispatch of an identity that stored nothing for
\* 24 hours is admitted, whatever rows it had stored before.
C26_AdmittedAfterADayIdle ==
    (LimiterReturned /\ IdleForADay) => last.allowed = "yes"

\* C25: in every invocation the steps are gated in the order validate,
\* admit, render, deliver, log: a count query is made only for a valid
\* request of a user; content is resolved and the provider called only
\* after the limiter admitted on both counts; the row of a delivery attempt
\* is handed to the insert only after the provider's outcome is known, and
\* says that outcome; a rejection is logged without content or provider.
Ordered(c) ==
    /\ c.queries > 0 => (c.user \in Users /\ requestValid(c.emailData))
    /\ c.allowed = "yes" => c.queries = 2
    /\ c.rendered => c.allowed = "yes"
    /\ c.fetches > 0 => (c.rendered /\ c.allowed = "yes")
    /\ c.provider # "none" => c.fetches = 1
    /\ c.inserts > 0 =>
          LET row == c.insertArgs[1]
          IN  /\ c.allowed \in {"yes", "no"}
              /\ row.status = "sent" => (c.provider = "ok" /\ c.fetches = 1)
              /\ (row.status = "failed" /\ c.fetches > 0) =>
                    c.provider \in {"http500", "network"}
              /\ c.allowed = "no" => (c.fetches = 0 /\ ~c.rendered)
C25_StepsInOrder ==
    /\ \A p \in Procs :
          /\ Ordered(ctx[p])
          /\ pc[p] = "daily" => ctx[p].queries = 2
          /\ pc[p] = "fetch" =>
                (ctx[p].fetches = 1 /\ ctx[p].provider = "none" /\ ctx[p].inserts = 0)
          /\ pc[p] = "insert" => ctx[p].inserts = 1
    /\ Ordered(last)

\* A delivery answered after all five steps, its Sent row stored.
C25_Witness ==
    /\ Answered /\ last.queries = 2 /\ last.allowed = "yes" /\ last.rendered
    /\ last.fetches = 1 /\ last.provider = "ok"
    /\ last.inserts = 1 /\ last.insertOk = "ok" /\ last.status = 200

\* C27: a dispatch whose hourly or daily count query returned an error is
\* answered with an error (500), without a verdict from the limiter, without
\* a provider call and without an insert: the table is as it was.
C27_LimiterFailsClosed ==
    (Answered /\ last.allowed = "error") =>
        /\ last.status = 500 /\ ~last.success /\ last.error # ""
        /\ last.queries \in {1, 2}
        /\ ~last.rendered /\ last.fetches = 0 /\ last.provider = "none"
        /\ last.inserts = 0 /\ last.appended = 0

\* The daily query failed after the hourly one had answered, for a request
\* that would have been delivered, the table holding a row already.
C27_Witness ==
    /\ Answered /\ last.allowed = "error" /\ last.queries = 2
    /\ last.status = 500
    /\ last.emailData.template = "welcome"
    /\ Len(email_logs) = 1 /\ last.hLen = 1

\* The table as it was before the answered dispatch (dispatches one at a
\* time), the instant the dispatch was made, and the identity's rows the two
\* windows held then.
TableBefore == SubSeq(email_logs, 1, Len(email_logs) - last.appended)
AskedAt == IF last.queries > 0 THEN last.now ELSE clock
HourBefore == Since(Own(TableBefore, last.user), AskedAt - Hour)
DayBefore == Since(Own(TableBefore, last.user), AskedAt - Day)
\* The request's content does not resolve: unknown template or no content.
ContentError == sendEmailThrows(last.emailData, TRUE)

\* C28: a dispatch with recipient and subject whose content does not
\* resolve, made by an identity over its hourly or daily limit, is answered
\* 429 with the limiter's reason and hands one failed row with that reason
\* to the insert, content never being looked at; the content error is
\* answered only to admitted dispatches.
C28_AdmissionBeforeContent ==
    /\ (/\ Answered /\ last.user \in Users /\ last.allowed # "error"
        /\ last.emailData.to # Absent /\ last.emailData.subject # Absent
        /\ ContentError # ""
        /\ (HourBefore >= maxEmailsPerHour \/ DayBefore >= maxEmailsPerDay)) =>
           /\ last.allowed = "no"
           /\ last.status = 429
           /\ last.error = IF HourBefore >= maxEmailsPerHour
                           THEN HourlyReason ELSE DailyReason
           /\ ~last.rendered /\ last.fetches = 0
           /\ last.inserts = 1 /\ last.appended = 1
           /\ Handed.status = "failed" /\ Handed.error_message = last.error
           /\ NewestIsHanded
    /\ (Answered /\ ContentError # "" /\ last.error = ContentError) =>
           (last.allowed = "yes" /\ last.status = 500)

\* An unknown template rejected by the daily limit, the hour being free.
C28_Witness ==
    /\ Answered /\ last.allowed = "no" /\ last.emailData.template = "bogus"
    /\ last.error = DailyReason /\ HourBefore = 0
    /\ last.appended = 1

\* What the client's pre-check computes at the instant and on the table of
\* the answered dispatch's admission check, its local day having begun at
\* `today`.
ClientStats(today) == getStats(SeenAtHourly, last.user, last.now, today)
ClientCanSend(today) == calculateRemainingEmails(ClientStats(today), RATE_LIMITS).canSend
ClientSaysReached(today) ==
    \/ ClientStats(today).sentThisHour >= RATE_LIMITS.maxEmailsPerHour
    \/ ClientStats(today).sentToday >= RATE_LIMITS.maxEmailsPerDay

\* C29 as claimed: whenever the pre-check reports a limit as reached, the
\* server's check of the same instant rejects.
C29_PreCheckNeverStricter ==
    LimiterReturned =>
        \A today \in LocalMidnights(last.now) :
            ClientSaysReached(today) => last.allowed = "no"

\* C29, amended: canSend is false exactly when the pre-check reports a limit
\* as reached; when it is the hourly one the server rejects; when it is the
\* daily one the server rejects provided the local day began no more than 24
\* hours ago.
C29_PreCheckNeverStricterWithinADay ==
    LimiterReturned =>
        \A today \in LocalMidnights(last.now) :
            /\ ~ClientCanSend(today) <=> ClientSaysReached(today)
            /\ ClientStats(today).sentThisHour >= RATE_LIMITS.maxEmailsPerHour =>
                  last.allowed = "no"
            /\ (/\ ClientStats(today).sentToday >= RATE_LIMITS.maxEmailsPerDay
                /\ today >= last.now - Day) =>
                  last.allowed = "no"

\* The pre-check reports the daily limit reached, the hour being free, on a
\* local day begun within 24 hours, and the server rejects.
C29_Witness ==
    /\ LimiterReturned /\ last.allowed = "no"
    /\ \E today \in LocalMidnights(last.now) :
          /\ today >= last.now - Day
          /\ ClientStats(today).sentToday >= RATE_LIMITS.maxEmailsPerDay
          /\ ClientStats(today).sentThisHour < RATE_LIMITS.maxEmailsPerHour

\* ---- C30 ----
\* The sends started through the hook instance that have not completed.
InFlight == {k \in HookCalls : hook.calls[k].at = "awaiting"}

\* C30 as claimed: the hook's sending flag is true exactly while at least one
\* send started through the hook instance has not completed, overlapping
\* sends included, and false once all of them have completed.
C30_SendingWhileAnyInFlight == hook.sending <=> InFlight # {}
====
